---- MODULE Spec2Model ----
(***************************************************************************)
(* Incremental indexing engine of bot-analitica: the refresh entry point   *)
(* (app.py refresh_context / load_drive_context), the sync algorithm       *)
(* (Analyzer.process_and_index_files with its parallel _worker pipeline)   *)
(* and the vector index (VectorStore) it reconciles against the remote     *)
(* listing.                                                                *)
(***************************************************************************)
EXTENDS Integers, Sequences, FiniteSets, Bags, TLC

(***************************************************************************)
(* Values                                                                  *)
(***************************************************************************)

\* Python None / JSON null: a missing name, timestamp or content.
None == "None"

\* Remote file names (SourceFile.name).
Names == {"a.txt", "b.txt"}

\* modifiedTime tokens the remote store hands out (opaque strings).
Stamps == {"t1", "t2"}

\* f.get('modifiedTime'): a token, or None when the entry carries none.
StampOrNone == Stamps \cup {None}

\* A refresh request is served while no name has more than this many rows
\* in the index (rows only pile up when an old version is not deleted).
MaxRows == 2

\* ThreadPoolExecutor(max_workers=5)
max_workers == 5

\* chunk_text(self, text, chunk_size=2000, overlap=200)
default_chunk_size == 2000
default_overlap == 200

\* Python truthiness of a timestamp value (None and '' are falsy).
Truthy(v) == v # None

Min(a, b) == IF a < b THEN a ELSE b

Range(s) == {s[i] : i \in DOMAIN s}

\* The multiset of the elements of a list.
SeqToBag(s) == [r \in Range(s) |-> Cardinality({i \in DOMAIN s : s[i] = r})]

(***************************************************************************)
(* Text: sequences of code points                                          *)
(***************************************************************************)

Rep(c, n) == [i \in 1..n |-> c]

\* Analyzer.sanitize_text: keep '\n', '\t' and every char with ord >= 32.
sanitize_text(text) ==
    SelectSeq(text, LAMBDA ch : ch = 10 \/ ch = 9 \/ ch >= 32)

\* A test that takes no chunk for blank.
IsBlankNever(chunk) == FALSE

\* str.strip() == '': only whitespace (after sanitizing: space, tab, newline).
IsBlank(chunk) == \A i \in DOMAIN chunk : chunk[i] \in {9, 10, 11, 12, 13, 32}

RECURSIVE chunk_from(_, _, _, _)
\* The while loop of chunk_text, from window start `start` (0-based).
chunk_from(text, start, chunk_size, overlap) ==
    IF start < Len(text)
    THEN LET end == start + chunk_size
         IN  <<SubSeq(text, start + 1, Min(end, Len(text)))>>
                 \o chunk_from(text, end - overlap, chunk_size, overlap)
    ELSE <<>>

\* Analyzer.chunk_text
chunk_text(text, chunk_size, overlap) == chunk_from(text, 0, chunk_size, overlap)

(***************************************************************************)
(* File contents.  A downloaded byte content is named by what the text     *)
(* extraction makes of it: "corrupt" makes the extraction raise, the       *)
(* others decode to the text TextOf gives.                                 *)
(***************************************************************************)

TextContents == {"blank", "doc"}
Contents == TextContents \cup {"corrupt"}

\* "blank": whitespace and a NUL; "doc": 1900 letters, a NUL, 1800 spaces
\* (three windows at the default sizes, the last one whitespace only).
TextOf ==
    [c \in TextContents |->
        IF c = "blank" THEN <<32, 0, 10>>
        ELSE Rep(65, 1900) \o <<0>> \o Rep(32, 1800)]

\* text_content after line 164, and chunks after line 174, per content.
SanitizedText == [c \in TextContents |-> sanitize_text(TextOf[c])]
ChunksOf ==
    [c \in TextContents |->
        chunk_text(SanitizedText[c], default_chunk_size, default_overlap)]

\* `if not chunk.strip(): continue`, per content and chunk position.
ChunkBlank == [c \in TextContents |-> [i \in DOMAIN ChunksOf[c] |-> IsBlank(ChunksOf[c][i])]]
NumChunks == [c \in TextContents |-> Len(ChunksOf[c])]

(***************************************************************************)
(* The vector index: a bag of records (wine_chunks rows without the        *)
(* surrogate id).                                                          *)
(***************************************************************************)

\* One row: documental.fuente_nombre and documental.fecha_ingesta of its
\* metadata, and the chunk it embeds (which text, which window).  The other
\* metadata blocks, which no sync decision reads, are left out of the row.
Record(name, modified_at, text, i) ==
    [fuente_nombre |-> name, fecha_ingesta |-> modified_at,
     text |-> text, chunk |-> i]

RecordsOf(idx, name) == {r \in BagToSet(idx) : r.fuente_nombre = name}

IndexedNames(idx) == {r.fuente_nombre : r \in BagToSet(idx)}

StampsOf(idx, name) == {r.fecha_ingesta : r \in RecordsOf(idx, name)}

\* VectorStore.get_indexed_files_info: the DISTINCT (name, timestamp) rows
\* folded into a dict; when a name has several timestamps the row order,
\* which the query leaves open, decides which one the dict keeps.
get_indexed_files_info(idx) ==
    {info \in [IndexedNames(idx) -> StampOrNone] :
        \A n \in DOMAIN info : info[n] \in StampsOf(idx, n)}

\* dict.get(name)
Get(info, name) == IF name \in DOMAIN info THEN info[name] ELSE None

\* The sub-bag of the rows a predicate on names keeps.
Restrict(idx, keep) ==
    LET S == {r \in BagToSet(idx) : r.fuente_nombre \in keep}
    IN  [r \in S |-> idx[r]]

\* A deletion that is put off: the rows stay for now.
delete_later(idx, names) == idx

\* A deletion that takes every row, whatever its name.
delete_everything(idx, names) == EmptyBag

\* VectorStore.delete_by_filename, for every name of a set in turn.
delete_by_filename(idx, names) == Restrict(idx, Names \ names)

\* VectorStore.add_documents: one transaction adding every row.
add_documents(idx, chunks_data) == idx (+) SeqToBag(chunks_data)

\* A clear that leaves the table as it is.
clear_nothing(idx) == idx

\* VectorStore.clear_all_chunks
clear_all_chunks(idx) == EmptyBag

\* A loop that keeps a file whatever its download gave.
HasContentAlways(content) == TRUE

\* `if content:` (app.py:64): the download gave something.
HasContent(content) == content # None

\* A sync decision that ignores the stored stamp: every listed file is taken
\* as changed.
NeedsSyncAlways(db_modified, drive_modified) == TRUE

\* `not db_modified or db_modified != drive_modified` (app.py:61,
\* analyzer.py:102).
NeedsSync(db_modified, drive_modified) ==
    ~Truthy(db_modified) \/ db_modified # drive_modified

\* `if db_modified_at:` (analyzer.py:105): the old version is deleted first.
DeletesOld(db_modified) == Truthy(db_modified)

\* A diff without its early return: the empty diff goes on to the pool.
NoChangesNever(to_process, to_delete) == FALSE

\* `if not files_to_process_names and not files_to_delete` (analyzer.py:109)
NoChanges(to_process, to_delete) == to_process = {} /\ to_delete = {}

\* A collection that starts over when a worker returns nothing.
ExtendDropping(all, chunks) == IF chunks = <<>> THEN <<>> ELSE all \o chunks

\* A collection that keeps only the last worker's rows.
ExtendReplace(all, chunks) == chunks

\* A collection that puts the first new row in front of the rows it has.
ExtendInterleaved(all, chunks) ==
    IF chunks = <<>> THEN all ELSE <<Head(chunks)>> \o all \o Tail(chunks)

\* all_chunks.extend(chunks)
Extend(all, chunks) == all \o chunks

\* A handler that returns the rows built before the exception.
OnExceptionPartial(chunks_list) == chunks_list

\* What _worker returns when its pipeline raised (analyzer.py:188-192).
OnException(chunks_list) == <<>>

(***************************************************************************)
(* State                                                                   *)
(***************************************************************************)
VARIABLES
    index,              \* the wine_chunks table
    pc,                 \* where the refresh request stands
    force,              \* data.get('force') is True
    listing,            \* drive.list_files: listed name -> modifiedTime
    prev_empty,         \* name -> modifiedTime of the files the cycle before
                        \* ran its pipeline on and got no record from
    index0,             \* the index when the request arrived
    files_data,         \* load_drive_context's files_data, by name
    files_to_delete,    \* process_and_index_files
    files_to_process,   \* files_to_process_names
    wpc,                \* per file: where its _worker stands
    text_content,       \* _worker local: the extracted, sanitized text
    ci,                 \* _worker local: position in `chunks`
    chunks_list,        \* _worker local
    future,             \* what each finished _worker returned
    raised,             \* per file: its pipeline raised
    all_chunks,         \* process_and_index_files
    result,             \* which message the cycle returns
    download_calls,     \* names whose content was requested this cycle
    download_failed,    \* those of them whose download gave no content
    llm_calls,          \* names with a metadata-extraction call this cycle
    embed_calls,        \* names with an embedding call this cycle
    delete_calls,       \* names delete_by_filename was called for
    add_calls           \* add_documents calls this cycle

vars == <<index, pc, force, listing, prev_empty, index0, files_data,
          files_to_delete, files_to_process, wpc, text_content,
          ci, chunks_list, future, raised, all_chunks,
          result, download_calls, download_failed, llm_calls, embed_calls,
          delete_calls,
          add_calls>>

workerVars == <<wpc, text_content, ci, chunks_list,
                future, raised>>
callVars == <<download_calls, download_failed, llm_calls, embed_calls,
              delete_calls, add_calls>>

\* The worker pool of process_and_index_files, taken by itself
\* (analyzer.py:194-204).
VARIABLES
    pool_names,         \* len(files_to_process_names)
    submitted,          \* how many names executor.submit was called for
    task,               \* per submitted name: queued, running or done
    handed              \* per name: how many times a thread took it

poolVars == <<pool_names, submitted, task, handed>>

\* No pool of its own is running.
PoolIdle ==
    /\ pool_names = 0
    /\ submitted = 0
    /\ task = <<>>
    /\ handed = <<>>

\* One call of chunk_text and the loop of _worker over what it returns,
\* taken by themselves (analyzer.py:49-57, 174-186).
VARIABLES
    ck_text,            \* text
    ck_chunk_size,      \* chunk_size
    ck_overlap,         \* overlap
    ck_start,           \* start
    ck_starts,          \* the values start had when a chunk was cut
    ck_chunks,          \* chunks
    ck_pc,              \* idle, loop (in chunk_text), embed (in _worker), done
    ck_i,               \* _worker: how many chunks the for loop has seen
    ck_embedded,        \* _worker: the texts handed to get_embedding
    ck_list             \* _worker: the chunk bodies of chunks_list

chunkVars == <<ck_text, ck_chunk_size, ck_overlap, ck_start, ck_starts,
               ck_chunks, ck_pc, ck_i, ck_embedded, ck_list>>

\* No call of chunk_text looked at by itself.
ChunkIdle ==
    /\ ck_text = <<>>
    /\ ck_chunk_size = default_chunk_size
    /\ ck_overlap = default_overlap
    /\ ck_start = 0
    /\ ck_starts = <<>>
    /\ ck_chunks = <<>>
    /\ ck_pc = "idle"
    /\ ck_i = 0
    /\ ck_embedded = <<>>
    /\ ck_list = <<>>

\* The pipeline of one file with its structured metadata, taken by itself
\* (analyzer.py:120-192, 259-340).
VARIABLES
    md_pc,              \* idle, extract, chunks, returned
    md_name,            \* name
    md_modified_at,     \* modified_at
    md_url,             \* file.get('webViewLink', '')
    md_reply,           \* what the completion call of the extraction does
    extracted_metadata, \* _worker local
    md_left,            \* non-blank chunks the for loop has yet to see
    md_list,            \* the metadata of chunks_list
    md_raised,          \* the pipeline raised
    md_stored           \* the metadata of the rows inserted for the file

metaVars == <<md_pc, md_name, md_modified_at, md_url, md_reply,
              extracted_metadata, md_left, md_list, md_raised, md_stored>>

\* No pipeline looked at by itself.
MetaIdle ==
    /\ md_pc = "idle"
    /\ md_name = "a.txt"
    /\ md_modified_at = None
    /\ md_url = ""
    /\ md_reply = [kind |-> "error", data |-> <<>>]
    /\ extracted_metadata = <<>>
    /\ md_left = 0
    /\ md_list = <<>>
    /\ md_raised = FALSE
    /\ md_stored = <<>>

\* One call of ask_bot, taken by itself (analyzer.py:342-445).
VARIABLES
    ask_pc,             \* idle, embed, search, complete1, tools, returned
    vector_store,       \* whether self.vector_store is set (not None)
    stored,             \* per name: how many rows the index holds
    results,            \* per name: how many of its rows search returned
    retrieved_context,  \* whether it is non-empty
    source_files,       \* the set of names collected from the results
    tool_calls,         \* response_message.tool_calls
    tool_i,             \* how many tool calls the for loop has handled
    used_weather,       \* used_weather
    tool_messages,      \* the contents of the tool-role messages appended
    answer,             \* first, second (completion content) or error
    sources,            \* the returned "sources" list
    ask_trace           \* the calls made, in order: embedding, search,
                        \* completion, parse (json.loads), tool; "raise"
                        \* follows a call that raised

askVars == <<ask_pc, vector_store, stored, results, retrieved_context,
             source_files, tool_calls, tool_i, used_weather, tool_messages,
             answer, sources, ask_trace>>

\* No question looked at by itself.
AskIdle ==
    /\ ask_pc = "idle"
    /\ vector_store = FALSE
    /\ stored = [n \in Names |-> 0]
    /\ results = [n \in Names |-> 0]
    /\ retrieved_context = FALSE
    /\ source_files = {}
    /\ tool_calls = <<>>
    /\ tool_i = 0
    /\ used_weather = FALSE
    /\ tool_messages = <<>>
    /\ answer = "none"
    /\ sources = <<>>
    /\ ask_trace = <<>>

\* The operations of VectorStore on one table, taken by themselves
\* (vector_store.py:74-112).
VARIABLES
    table,              \* the wine_chunks rows
    table0,             \* the rows before the last operation
    vs_op,              \* the last operation: none, add, delete, search
    vs_filename,        \* delete_by_filename: filename
    vs_query,           \* search: query_embedding
    vs_limit,           \* search: limit
    vs_returned         \* what the last operation returned

storeVars == <<table, table0, vs_op, vs_filename, vs_query, vs_limit,
               vs_returned>>

\* No operation of the store looked at by itself.
StoreIdle ==
    /\ table = EmptyBag
    /\ table0 = EmptyBag
    /\ vs_op = "none"
    /\ vs_filename = None
    /\ vs_query = None
    /\ vs_limit = 0
    /\ vs_returned = None

\* The start of the service and the calls it then serves, taken by
\* themselves (app.py:14-34, 36-53, 92-115, 187-192; analyzer.py:14-35).
VARIABLES
    bt_pc,              \* start, or serving once the module is loaded
    db_up,              \* whether the index can be reached right now
    drive,              \* the global drive: None or the connector
    analyzer,           \* the global analyzer: None or the Analyzer
    an_vector_store,    \* whether analyzer.vector_store is set (not None)
    bt_op,              \* the last call served: none, boot, refresh, ask
    bt_result,          \* what it returned
    bt_db_up,           \* whether the index could be reached during it
    bt_store_before,    \* whether analyzer.vector_store was set before it
    bt_attempted,       \* whether it tried to connect to the index
    bt_listed,          \* refresh: whether the listing had files
    bt_calls,           \* how many refreshes and questions were served
    bt_connects         \* how many times VectorStore() was constructed

bootVars == <<bt_pc, db_up, drive, analyzer, an_vector_store, bt_op,
              bt_result, bt_db_up, bt_store_before, bt_attempted, bt_listed,
              bt_calls, bt_connects>>

\* No service start looked at by itself.
BootIdle ==
    /\ bt_pc = "idle"
    /\ db_up = FALSE
    /\ drive = None
    /\ analyzer = None
    /\ an_vector_store = FALSE
    /\ bt_op = "none"
    /\ bt_result = "none"
    /\ bt_db_up = FALSE
    /\ bt_store_before = FALSE
    /\ bt_attempted = FALSE
    /\ bt_listed = FALSE
    /\ bt_calls = 0
    /\ bt_connects = 0

\* Two refresh requests served by two threads of the web server, taken by
\* themselves (app.py:36-102, analyzer.py:76-215).
VARIABLES
    rc_index,           \* the wine_chunks table both requests work on
    rc_listing,         \* the remote listing, the same for both
    rc_pc,              \* per request: idle, load, process, pool, insert, done
    rc_files_data,      \* per request: files_data
    rc_to_process,      \* per request: files_to_process_names
    rc_all_chunks,      \* per request: all_chunks
    rc_piped            \* per request: the names it ran a pipeline with
                        \* content on

raceVars == <<rc_index, rc_listing, rc_pc, rc_files_data, rc_to_process,
              rc_all_chunks, rc_piped>>

\* No pair of requests looked at by itself.
RaceIdle ==
    /\ rc_index = EmptyBag
    /\ rc_listing = <<>>
    /\ rc_pc = <<>>
    /\ rc_files_data = <<>>
    /\ rc_to_process = <<>>
    /\ rc_all_chunks = <<>>
    /\ rc_piped = <<>>

\* The state of the parts looked at by themselves.
sideVars == <<poolVars, chunkVars, metaVars, askVars, storeVars, bootVars, raceVars>>

\* What the pool by itself leaves alone.
notPool == <<vars, chunkVars, metaVars, askVars, storeVars, bootVars, raceVars>>

\* What a call of chunk_text by itself leaves alone.
notChunk == <<vars, poolVars, metaVars, askVars, storeVars, bootVars, raceVars>>

\* What the pipeline of one file by itself leaves alone.
notMeta == <<vars, poolVars, chunkVars, askVars, storeVars, bootVars, raceVars>>

\* What a question by itself leaves alone.
notAsk == <<vars, poolVars, chunkVars, metaVars, storeVars, bootVars, raceVars>>

\* What the vector store by itself leaves alone.
notStore == <<vars, poolVars, chunkVars, metaVars, askVars, bootVars, raceVars>>

\* What the start of the service by itself leaves alone.
notBoot == <<vars, poolVars, chunkVars, metaVars, askVars, storeVars, raceVars>>

\* What two refresh requests by themselves leaves alone.
notRace == <<vars, poolVars, chunkVars, metaVars, askVars, storeVars, bootVars>>

\* Every listing the remote store can return: some names, each with its
\* modifiedTime (or none).
Listings == UNION {[S -> StampOrNone] : S \in SUBSET Names}

NoFiles == [n \in {} |-> None]

IdleWorkers ==
    /\ wpc = [n \in Names |-> "none"]
    /\ text_content = [n \in Names |-> None]
    /\ ci = [n \in Names |-> 0]
    /\ chunks_list = [n \in Names |-> <<>>]
    /\ future = [n \in Names |-> <<>>]
    /\ raised = [n \in Names |-> FALSE]

Init ==
    /\ index = EmptyBag
    /\ pc = "idle"
    /\ force = FALSE
    /\ listing = NoFiles
    /\ prev_empty = NoFiles
    /\ index0 = EmptyBag
    /\ files_data = NoFiles
    /\ files_to_delete = {}
    /\ files_to_process = {}
    /\ IdleWorkers
    /\ all_chunks = <<>>
    /\ result = "none"
    /\ download_calls = {}
    /\ download_failed = {}
    /\ llm_calls = {}
    /\ embed_calls = {}
    /\ delete_calls = {}
    /\ add_calls = 0

\* Nothing but the pool is at work.
PoolAlone == Init /\ ChunkIdle /\ MetaIdle /\ AskIdle /\ StoreIdle /\ BootIdle /\ RaceIdle

\* Nothing but the call of chunk_text is at work.
ChunkAlone == Init /\ PoolIdle /\ MetaIdle /\ AskIdle /\ StoreIdle /\ BootIdle /\ RaceIdle

\* Nothing but the pipeline of one file is at work.
MetaAlone == Init /\ PoolIdle /\ ChunkIdle /\ AskIdle /\ StoreIdle /\ BootIdle /\ RaceIdle

\* Nothing but the question is at work.
AskAlone == Init /\ PoolIdle /\ ChunkIdle /\ MetaIdle /\ StoreIdle /\ BootIdle /\ RaceIdle

\* Nothing but the vector store is at work.
StoreAlone == Init /\ PoolIdle /\ ChunkIdle /\ MetaIdle /\ AskIdle /\ BootIdle /\ RaceIdle

\* Nothing but the start of the service is at work.
BootAlone == Init /\ PoolIdle /\ ChunkIdle /\ MetaIdle /\ AskIdle /\ StoreIdle /\ RaceIdle

\* Nothing but the pair of refresh requests is at work.
RaceAlone == Init /\ PoolIdle /\ ChunkIdle /\ MetaIdle /\ AskIdle /\ StoreIdle /\ BootIdle

(***************************************************************************)
(* The refresh request                                                     *)
(***************************************************************************)

\* refresh_context: POST /api/refresh, with or without force.
RefreshContext(f) ==
    /\ pc = "idle"
    /\ UNCHANGED sideVars
    /\ \A n \in Names : BagCardinality(Restrict(index, {n})) <= MaxRows
    /\ force' = f
    /\ index0' = index
    /\ index' = IF f THEN clear_all_chunks(index) ELSE index
    /\ pc' = "load"
    /\ UNCHANGED <<listing, prev_empty, files_data, files_to_delete,
                   files_to_process, workerVars, all_chunks, result, callVars>>

\* load_drive_context: list the folder, download what is new or modified.
\* dl gives, for each file asked for, the content download_file_content
\* returns (None: the download failed or the file is empty).
LoadDriveContext(files, dl) ==
    /\ pc = "load"
    /\ UNCHANGED sideVars
    /\ listing' = files
    /\ IF DOMAIN files = {}
       THEN /\ result' = "no_files"
            /\ pc' = "done"
            /\ UNCHANGED <<files_data, download_calls, download_failed>>
       ELSE \E indexed_info \in get_indexed_files_info(index) :
              LET wanted == {n \in DOMAIN files :
                                NeedsSync(Get(indexed_info, n), files[n])}
                  kept == {n \in DOMAIN files :
                              n \in wanted => HasContent(dl[n])}
              IN  /\ \A n \in Names \ wanted : dl[n] = None
                  /\ download_calls' = wanted
                  /\ download_failed' = {n \in wanted : dl[n] = None}
                  /\ files_data' =
                        [n \in kept |->
                            [modifiedTime |-> files[n],
                             content |-> IF n \in wanted THEN dl[n] ELSE None]]
                  /\ pc' = "process"
                  /\ UNCHANGED result
    /\ UNCHANGED <<index, force, prev_empty, index0, files_to_delete,
                   files_to_process, workerVars, all_chunks, llm_calls,
                   embed_calls, delete_calls, add_calls>>

\* process_and_index_files, lines 84-112: the diff and the eager deletions.
ProcessAndIndexFiles ==
    /\ pc = "process"
    /\ UNCHANGED sideVars
    /\ \E indexed_files_info \in get_indexed_files_info(index) :
         LET to_delete == DOMAIN indexed_files_info \ DOMAIN files_data
             to_process ==
                 {n \in DOMAIN files_data :
                     NeedsSync(Get(indexed_files_info, n),
                               files_data[n].modifiedTime)}
             modified == {n \in to_process :
                             DeletesOld(Get(indexed_files_info, n))}
         IN  /\ files_to_delete' = to_delete
             /\ files_to_process' = to_process
             /\ delete_calls' = to_delete \cup modified
             /\ index' = delete_by_filename(index, to_delete \cup modified)
             /\ IF NoChanges(to_process, to_delete)
                THEN /\ result' = "no_changes"
                     /\ pc' = "done"
                     /\ UNCHANGED wpc
                ELSE /\ pc' = "pool"
                     /\ wpc' = [n \in Names |->
                                  IF n \in to_process THEN "queued" ELSE "none"]
                     /\ UNCHANGED result
    /\ UNCHANGED <<force, listing, prev_empty, index0, files_data,
                   text_content, ci, chunks_list, future,
                   raised, all_chunks, download_calls, download_failed, llm_calls, embed_calls,
                   add_calls>>

(***************************************************************************)
(* The parallel region: one _worker per file of files_to_process           *)
(***************************************************************************)

InProgress == {n \in Names : wpc[n] \in {"meta", "embed"}}

\* The _worker returns `chunks`; its locals are gone (ci is kept after an
\* exception: the chunk whose embedding failed).
WorkerReturns(n, chunks) ==
    /\ future' = [future EXCEPT ![n] = chunks]
    /\ wpc' = [wpc EXCEPT ![n] = "finished"]
    /\ text_content' = [text_content EXCEPT ![n] = None]
    /\ chunks_list' = [chunks_list EXCEPT ![n] = <<>>]

\* A pool thread takes the file, lines 121-164: without content it returns
\* [] at once; text extraction raises on a content it cannot read, and the
\* except clause returns []; otherwise the text is extracted and sanitized.
WorkerStart(n) ==
    /\ pc = "pool"
    /\ UNCHANGED sideVars
    /\ wpc[n] = "queued"
    /\ Cardinality(InProgress) < max_workers
    /\ IF files_data[n].content = None
       THEN /\ WorkerReturns(n, <<>>)
            /\ UNCHANGED <<raised, ci>>
       ELSE IF files_data[n].content = "corrupt"
       THEN /\ raised' = [raised EXCEPT ![n] = TRUE]
            /\ WorkerReturns(n, OnException(chunks_list[n]))
            /\ UNCHANGED ci
       ELSE /\ text_content' = [text_content EXCEPT ![n] = files_data[n].content]
            /\ wpc' = [wpc EXCEPT ![n] = "meta"]
            /\ UNCHANGED <<raised, future, ci, chunks_list>>
    /\ UNCHANGED <<index, pc, force, listing, prev_empty, index0,
                   files_data, files_to_delete, files_to_process, all_chunks,
                   result, callVars>>

\* The chunks of `chunks` from position i on that are not blank
\* (`if not chunk.strip(): continue`).
NonBlankFrom(text, i) == {j \in i..NumChunks[text] : ~ChunkBlank[text][j]}

SetMin(S) == CHOOSE x \in S : \A y \in S : x <= y

\* The metadata-extraction call answers (lines 166-170; it never raises: a
\* failure gives the empty extraction, which only the metadata blocks left
\* out of the row see), chunk_text gives `chunks` (line 174) and the loop runs up to its first
\* embedding call; when no chunk is left to embed the worker returns [].
WorkerMeta(n) ==
    /\ pc = "pool"
    /\ UNCHANGED sideVars
    /\ wpc[n] = "meta"
    /\ llm_calls' = llm_calls \cup {n}
    /\ IF NonBlankFrom(text_content[n], 1) = {}
       THEN /\ WorkerReturns(n, <<>>)
            /\ UNCHANGED ci
       ELSE /\ ci' = [ci EXCEPT ![n] = SetMin(NonBlankFrom(text_content[n], 1))]
            /\ chunks_list' = [chunks_list EXCEPT ![n] = <<>>]
            /\ wpc' = [wpc EXCEPT ![n] = "embed"]
            /\ UNCHANGED <<text_content, future>>
    /\ UNCHANGED <<index, pc, force, listing, prev_empty, index0,
                   files_data, files_to_delete, files_to_process, raised,
                   all_chunks, result, download_calls, download_failed, embed_calls,
                   delete_calls, add_calls>>

\* The embedding call for chunk ci answers (lines 175-186).  embed_ok: the
\* record is appended and the loop runs on to its next embedding call, or
\* to `return chunks_list` when no chunk is left to embed.  Otherwise the
\* call raises and the except clause returns [].
WorkerChunk(n, embed_ok) ==
    /\ pc = "pool"
    /\ UNCHANGED sideVars
    /\ wpc[n] = "embed"
    /\ embed_calls' = embed_calls \cup {n}
    /\ LET text == text_content[n]
           rest == NonBlankFrom(text, ci[n] + 1)
           appended == Append(chunks_list[n],
                              Record(n, files_data[n].modifiedTime, text,
                                     ci[n]))
       IN  IF ~embed_ok
           THEN /\ raised' = [raised EXCEPT ![n] = TRUE]
                /\ WorkerReturns(n, OnException(chunks_list[n]))
                /\ UNCHANGED ci
           ELSE IF rest = {}
           THEN /\ WorkerReturns(n, appended)
                /\ ci' = [ci EXCEPT ![n] = 0]
                /\ UNCHANGED raised
           ELSE /\ chunks_list' = [chunks_list EXCEPT ![n] = appended]
                /\ ci' = [ci EXCEPT ![n] = SetMin(rest)]
                /\ UNCHANGED <<future, raised, wpc, text_content>>
    /\ UNCHANGED <<index, pc, force, listing, prev_empty, index0,
                   files_data, files_to_delete, files_to_process, all_chunks,
                   result, download_calls, download_failed, llm_calls, delete_calls, add_calls>>

\* as_completed hands over a finished future: lines 198-204.
Collect(n) ==
    /\ pc = "pool"
    /\ UNCHANGED sideVars
    /\ wpc[n] = "finished"
    /\ all_chunks' = Extend(all_chunks, future[n])
    /\ wpc' = [wpc EXCEPT ![n] = "collected"]
    /\ UNCHANGED <<index, pc, force, listing, prev_empty, index0,
                   files_data, files_to_delete, files_to_process, text_content,
                   ci, chunks_list, future, raised, result,
                   callVars>>

\* After the pool has shut down: the bulk insert, lines 206-215.
BulkInsert ==
    /\ pc = "pool"
    /\ UNCHANGED sideVars
    /\ \A n \in files_to_process : wpc[n] = "collected"
    /\ IF all_chunks # <<>>
       THEN /\ index' = add_documents(index, all_chunks)
            /\ add_calls' = add_calls + 1
            /\ result' = "synced"
       ELSE /\ result' = "no_content"
            /\ UNCHANGED <<index, add_calls>>
    /\ pc' = "done"
    /\ UNCHANGED <<force, listing, prev_empty, index0, files_data,
                   files_to_delete, files_to_process, workerVars, all_chunks,
                   download_calls, download_failed, llm_calls, embed_calls, delete_calls>>

\* The response is sent; the request's locals are gone.
Return ==
    /\ pc = "done"
    /\ UNCHANGED sideVars
    /\ pc' = "idle"
    /\ prev_empty' = [n \in {m \in files_to_process :
                                 /\ files_data[m].content # None
                                 /\ future[m] = <<>>}
                          |-> files_data[n].modifiedTime]
    /\ listing' = NoFiles
    /\ force' = FALSE
    /\ index0' = EmptyBag
    /\ files_data' = NoFiles
    /\ files_to_delete' = {}
    /\ files_to_process' = {}
    /\ wpc' = [n \in Names |-> "none"]
    /\ text_content' = [n \in Names |-> None]
    /\ ci' = [n \in Names |-> 0]
    /\ chunks_list' = [n \in Names |-> <<>>]
    /\ future' = [n \in Names |-> <<>>]
    /\ raised' = [n \in Names |-> FALSE]
    /\ all_chunks' = <<>>
    /\ result' = "none"
    /\ download_calls' = {}
    /\ download_failed' = {}
    /\ llm_calls' = {}
    /\ embed_calls' = {}
    /\ delete_calls' = {}
    /\ add_calls' = 0
    /\ UNCHANGED index

Next == \/ \E f \in BOOLEAN : RefreshContext(f)
        \/ \E files \in Listings, dl \in [Names -> Contents \cup {None}] :
              LoadDriveContext(files, dl)
        \/ ProcessAndIndexFiles
        \/ \E n \in Names : WorkerStart(n)
        \/ \E n \in Names : WorkerMeta(n)
        \/ \E n \in Names, embed_ok \in BOOLEAN : WorkerChunk(n, embed_ok)
        \/ \E n \in Names : Collect(n)
        \/ BulkInsert
        \/ Return

\* The service after construction: no request yet, nothing else running.
SyncInit == Init /\ PoolIdle /\ ChunkIdle /\ MetaIdle /\ AskIdle /\ StoreIdle /\ BootIdle /\ RaceIdle

\* The sync cycles, one refresh request after another.
Spec == SyncInit /\ [][Next]_vars

(***************************************************************************)
(* Properties of the sync cycle                                            *)
(***************************************************************************)

\* The index load_drive_context reads: what the request found, cleared
\* first by a forced refresh.
StartIndex == IF force THEN EmptyBag ELSE index0

\* process_and_index_files ran in this cycle and has returned.
SyncReturned == pc = "done" /\ result \in {"no_changes", "synced", "no_content"}

\* The parallel region ran in this cycle and the cycle has returned.
PoolReturned == pc = "done" /\ result \in {"synced", "no_content"}

RowsOf(idx, name) == Restrict(idx, {name})

RECURSIVE RowsFrom(_, _, _, _)
\* The rows of the non-blank chunks i, i+1, ... of a text, in window order.
RowsFrom(name, modified_at, text, i) ==
    IF i > NumChunks[text] THEN <<>>
    ELSE (IF ChunkBlank[text][i] THEN <<>>
          ELSE <<Record(name, modified_at, text, i)>>)
             \o RowsFrom(name, modified_at, text, i + 1)

\* What one file contributes, given its content and whether a provider
\* call of its pipeline failed: nothing, or a row per non-blank chunk.
ExpectedRows(n) ==
    IF files_data[n].content \notin TextContents \/ raised[n] THEN <<>>
    ELSE RowsFrom(n, files_data[n].modifiedTime, files_data[n].content, 1)

RECURSIVE ExpectedBag(_)
\* The rows a set of files contributes, as a multiset.
ExpectedBag(S) ==
    IF S = {} THEN EmptyBag
    ELSE LET x == CHOOSE y \in S : TRUE
         IN  SeqToBag(ExpectedRows(x)) (+) ExpectedBag(S \ {x})

\* C1: when a sync cycle triggered through the refresh entry point returns,
\* the index holds no record whose fuente_nombre is absent from the remote
\* listing, whatever the listing (the empty one included).
C1_NoRecordOfUnlistedName ==
    pc = "done" =>
        \A r \in BagToSet(index) : r.fuente_nombre \in DOMAIN listing

\* The listed names whose indexed timestamp is missing or differs from the
\* remote modifiedTime.
ChangedNames ==
    {n \in DOMAIN listing :
        \/ \A s \in StampsOf(StartIndex, n) : ~Truthy(s)
        \/ \E s \in StampsOf(StartIndex, n) : s # listing[n]}

\* C2: a remote name is submitted to the per-file pipeline iff the index has
\* no timestamp for it or a timestamp other than the remote modifiedTime,
\* and the download decision selects exactly the names the processing
\* decision selects.
C2_SameSelection ==
    SyncReturned =>
        /\ files_to_process = ChangedNames
        /\ download_calls = files_to_process

\* A listed file the index holds at exactly the remote timestamp.
Unchanged(n) ==
    /\ n \in DOMAIN listing
    /\ Truthy(listing[n])
    /\ StampsOf(index0, n) = {listing[n]}

\* C3: through a non-forced sync cycle the rows of a file whose indexed
\* timestamp equals the remote one stay what they were, and the file is
\* neither downloaded nor embedded nor sent to the language model.
C3_UnchangedFileUntouched ==
    (pc \in {"process", "pool", "done"} /\ ~force) =>
        \A n \in Names :
            Unchanged(n) =>
                /\ RowsOf(index, n) = RowsOf(index0, n)
                /\ n \notin download_calls \cup embed_calls \cup llm_calls
                /\ n \notin delete_calls

\* C3's case: an indexed, unchanged file kept its rows through a non-forced
\* cycle that reprocessed another file.
C3_Witness ==
    /\ pc = "done" /\ ~force /\ result = "synced"
    /\ \E n \in Names : Unchanged(n) /\ RowsOf(index, n) # EmptyBag
    /\ embed_calls # {}

\* C4: with nothing to delete and nothing to process, process_and_index_files
\* returns the no-op status and neither deletes nor inserts nor calls the
\* embedding or language-model provider: the index is what it read.
C4_NoOpTouchesNothing ==
    (SyncReturned /\ files_to_delete = {} /\ files_to_process = {}) =>
        /\ result = "no_changes"
        /\ delete_calls = {}
        /\ add_calls = 0
        /\ embed_calls = {}
        /\ llm_calls = {}
        /\ index = StartIndex

\* C4's case: a replayed sync over files that are all indexed and unchanged.
C4_Witness ==
    /\ SyncReturned /\ files_to_delete = {} /\ files_to_process = {}
    /\ index # EmptyBag
    /\ DOMAIN listing = Names

\* The file versions a sync cycle already ran its pipeline on: those the
\* index holds rows of, and those the cycle before got no record from.
AlreadyPiped(n) ==
    /\ n \in DOMAIN listing
    /\ \/ StampsOf(index0, n) = {listing[n]}
       \/ n \in DOMAIN prev_empty /\ prev_empty[n] = listing[n]

\* C5: a (name, timestamp) version is put through the pipeline at most once:
\* a non-forced cycle that finds a version the cycle before already put
\* through the pipeline (with or without records) makes no embedding or
\* language-model call for it and leaves its rows as they were.
C5_EachVersionPipedOnce ==
    (pc = "done" /\ ~force) =>
        \A n \in Names :
            AlreadyPiped(n) =>
                /\ n \notin embed_calls \cup llm_calls
                /\ RowsOf(index, n) = RowsOf(index0, n)

\* C6: whenever new rows of a name wait for the bulk insert, every old row
\* of that name is gone from the index (whatever timestamp it carried), so
\* rows of two versions of a name never coexist.
C6_OldRowsDeletedBeforeInsert ==
    pc = "pool" =>
        \A i \in DOMAIN all_chunks :
            RecordsOf(index, all_chunks[i].fuente_nombre) = {}

\* C7: every name in the index has all its rows carrying one and the same
\* fecha_ingesta.
C7_OneStampPerName ==
    \A n \in Names : Cardinality(StampsOf(index, n)) <= 1

\* C8: a file whose pipeline raised counts for zero records, the cycle
\* returns all the same, and every row the other files produced is in the
\* index.
C8_FailureIsPerFile ==
    PoolReturned =>
        \A n \in files_to_process :
            /\ raised[n] => /\ future[n] = <<>>
                            /\ \A i \in DOMAIN all_chunks :
                                   all_chunks[i].fuente_nombre # n
            /\ ~raised[n] => /\ future[n] = ExpectedRows(n)
                             /\ \A r \in Range(future[n]) : BagIn(r, index)

\* C8's case: one file's pipeline raised, another file's rows were inserted.
C8_Witness ==
    /\ PoolReturned /\ result = "synced"
    /\ \E n, m \in files_to_process :
           /\ raised[n]
           /\ ~raised[m] /\ future[m] # <<>>
           /\ \A r \in Range(future[m]) : BagIn(r, index)

\* C9: all or nothing per file version: the index holds either a row for
\* every non-blank chunk of a version's sanitized text, as many times each,
\* or no row of that version.
C9_AllOrNothing ==
    \A r \in BagToSet(index) :
        \A j \in NonBlankFrom(r.text, 1) :
            LET rj == Record(r.fuente_nombre, r.fecha_ingesta, r.text, j)
            IN  BagIn(rj, index) /\ CopiesIn(rj, index) = CopiesIn(r, index)

\* C9's case: the embedding call failed on a file's second chunk, after its
\* first chunk was embedded, and the cycle left no row of that file.
C9_Witness ==
    /\ PoolReturned /\ result = "synced"
    /\ \E n \in files_to_process :
           /\ raised[n] /\ ci[n] = 2
           /\ RecordsOf(index, n) = {}

\* C10: whatever the order in which the workers ran and completed, the rows
\* inserted are, as a multiset, the rows each file contributes by itself,
\* every row belongs to the one file it names, and the index is the index
\* after the deletions plus those rows.
C10_OrderIndependent ==
    PoolReturned =>
        /\ SeqToBag(all_chunks) = ExpectedBag(files_to_process)
        /\ \A n \in files_to_process :
               \A r \in Range(future[n]) : r.fuente_nombre = n
        /\ index = delete_by_filename(StartIndex, delete_calls)
                       (+) ExpectedBag(files_to_process)

\* C10's case: two files produced rows and the rows of b.txt were collected
\* before those of a.txt.
C10_Witness ==
    /\ PoolReturned
    /\ Len(all_chunks) = 4
    /\ all_chunks[1].fuente_nombre = "b.txt"
    /\ all_chunks[4].fuente_nombre = "a.txt"

(***************************************************************************)
(* The worker pool (analyzer.py:194-204)                                   *)
(*                                                                         *)
(* files_to_process_names[1..pool_names] are submitted one by one to a     *)
(* ThreadPoolExecutor(max_workers=5); its threads take the submitted work  *)
(* items first in, first out, and run _worker on them.                     *)
(***************************************************************************)

\* The most names one cycle has to process.
MaxFiles == 7

\* The work items a thread is running _worker on.
Running == {i \in DOMAIN task : task[i] = "running"}

\* The work items waiting in the executor's queue.
Queued == {i \in DOMAIN task : task[i] = "queued"}

\* A pool that starts a thread for every work item.
HasIdleThreadAlways(running) == TRUE

\* The executor has a thread to spare: it runs at most max_workers threads,
\* each on one work item.
HasIdleThread(running) == Cardinality(running) < max_workers

\* The parallel region is entered with some names to process.
PoolInit ==
    /\ PoolAlone
    /\ pool_names \in 0..MaxFiles
    /\ submitted = 0
    /\ task = <<>>
    /\ handed = [i \in 1..pool_names |-> 0]

\* executor.submit(_worker, name) for the next name of the comprehension.
PoolSubmit ==
    /\ submitted < pool_names
    /\ submitted' = submitted + 1
    /\ task' = Append(task, "queued")
    /\ UNCHANGED <<pool_names, handed, notPool>>

\* A thread of the pool takes the oldest waiting work item.
PoolTake(i) ==
    /\ i \in Queued
    /\ \A j \in Queued : i <= j
    /\ HasIdleThread(Running)
    /\ task' = [task EXCEPT ![i] = "running"]
    /\ handed' = [handed EXCEPT ![i] = @ + 1]
    /\ UNCHANGED <<pool_names, submitted, notPool>>

\* _worker returns (its rows, or [] after an exception): the thread is free.
PoolFinish(i) ==
    /\ i \in Running
    /\ task' = [task EXCEPT ![i] = "done"]
    /\ UNCHANGED <<pool_names, submitted, handed, notPool>>

PoolNext ==
    \/ PoolSubmit
    \/ \E i \in 1..MaxFiles : PoolTake(i)
    \/ \E i \in 1..MaxFiles : PoolFinish(i)

\* Every call a worker waits for returns or raises, the submission loop
\* runs on and an idle thread takes waiting work: the pool never stops
\* while there is something to do.
PoolSpec == PoolInit /\ [][PoolNext]_poolVars /\ WF_poolVars(PoolNext)

\* C11: at every instant at most 5 file pipelines are in progress, no file
\* is handed to a worker twice, and in the end every file of the cycle has
\* been handed to a worker exactly once.
C11_BoundedPool ==
    /\ [](/\ Cardinality(Running) <= 5
          /\ \A i \in 1..pool_names : handed[i] <= 1)
    /\ <>[](\A i \in 1..pool_names : handed[i] = 1 /\ i \in DOMAIN task
                                     /\ task[i] = "done")

\* C11's case: more files than threads: five pipelines in progress while
\* another file waits for a thread.
C11_Witness ==
    /\ pool_names > 5
    /\ Cardinality(Running) = 5
    /\ Queued # {}

\* C12: within a sync cycle the deletions are done when the parallel region
\* starts and none happens later, add_documents is called at most once and
\* only when every worker has finished and been collected, and no step of
\* the parallel region other than that bulk insert changes the index.
C12_DeletesThenPoolThenInsert ==
    /\ [](add_calls <= 1)
    /\ [](pc = "pool" =>
            /\ add_calls = 0
            /\ \A n \in delete_calls : RecordsOf(index, n) = {})
    /\ [][/\ delete_calls' # delete_calls => (pc = "process" \/ pc' = "idle")
          /\ add_calls' > add_calls =>
                /\ pc = "pool"
                /\ \A n \in files_to_process : wpc[n] = "collected"
          /\ (pc = "pool" /\ index' # index) =>
                /\ add_calls' = add_calls + 1
                /\ index' = add_documents(index, all_chunks)]_vars

\* C12's case: a cycle that deleted a removed file and the old rows of a
\* modified one, ran two workers and made its one bulk insert.
C12_Witness ==
    /\ pc = "done" /\ add_calls = 1
    /\ files_to_delete # {}
    /\ \E n \in files_to_process : n \in delete_calls
    /\ \A n \in files_to_process : wpc[n] = "collected"

\* C13: a forced refresh has emptied the index before load_drive_context
\* computes its diff, every listed file whose content could be downloaded
\* is put through the pipeline in that cycle, and when the cycle returns the
\* index holds the rows inserted by this cycle and nothing else.
C13_ForceClearsFirst ==
    force =>
        /\ pc = "load" => index = EmptyBag
        /\ pc \in {"process", "pool", "done"} =>
              /\ download_calls = DOMAIN listing
              /\ \A n \in DOMAIN files_data : files_data[n].content # None
        /\ pc \in {"pool", "done"} => files_to_process = DOMAIN files_data
        /\ pc = "done" =>
              /\ \A n \in DOMAIN files_data : wpc[n] = "collected"
              /\ index = SeqToBag(all_chunks)

\* C13's case: a forced refresh reprocessed a file the index already held at
\* the remote timestamp, and dropped the rows of another file.
C13_Witness ==
    /\ force /\ pc = "done" /\ result = "synced"
    /\ \E n \in DOMAIN listing :
           /\ StampsOf(index0, n) = {listing[n]}
           /\ n \in embed_calls
    /\ \E n \in Names : RecordsOf(index0, n) # {} /\ RecordsOf(index, n) = {}

(***************************************************************************)
(* chunk_text, its while loop step by step, and the for loop of _worker    *)
(* over the chunks it returns (analyzer.py:49-57, 174-186)                 *)
(***************************************************************************)

\* The longest short text tried.
MaxLen == 3

\* The while loop is followed for at most this many chunks: more than any
\* text of MaxLen characters gives when the window advances.
ChunkCap == MaxLen + 1

\* Characters: a letter, a space, a NUL.
Chars == {65, 32, 0}

RawTexts == UNION {[1..k -> Chars] : k \in 0..MaxLen}

\* The spec's example: "A" * 4500.
LongText == Rep(65, 4500)

\* The windows tried on the short texts, and the defaults.
SmallSizes == 1..MaxLen
SmallOverlaps == 0..MaxLen

\* A position i of a Python slice of a sequence of length n, clamped.
SliceIndex(i, n) ==
    IF i < 0 THEN (IF i + n < 0 THEN 0 ELSE i + n)
    ELSE Min(i, n)

\* text[start:end]
Slice(text, start, end) ==
    LET lo == SliceIndex(start, Len(text))
        hi == SliceIndex(end, Len(text))
    IN  IF lo < hi THEN SubSeq(text, lo + 1, hi) ELSE <<>>

\* A window that does not step back by the overlap.
NextStartNoOverlap(end, overlap) == end

\* start = end - overlap
NextStart(end, overlap) == end - overlap

\* chunk_text is called on a sanitized text (analyzer.py:164, 174).
ChunkInit ==
    /\ ChunkAlone
    /\ \/ /\ \E raw \in RawTexts : ck_text = sanitize_text(raw)
          /\ ck_chunk_size \in SmallSizes
          /\ ck_overlap \in SmallOverlaps
       \/ /\ ck_text = LongText
          /\ ck_chunk_size = default_chunk_size
          /\ ck_overlap = default_overlap
    /\ ck_start = 0
    /\ ck_starts = <<>>
    /\ ck_chunks = <<>>
    /\ ck_pc = "loop"
    /\ ck_i = 0
    /\ ck_embedded = <<>>
    /\ ck_list = <<>>

\* One turn of `while start < len(text)` (lines 53-56).
ChunkStep ==
    /\ ck_pc = "loop"
    /\ ck_start < Len(ck_text)
    /\ Len(ck_chunks) < ChunkCap
    /\ LET end == ck_start + ck_chunk_size
       IN  /\ ck_chunks' = Append(ck_chunks, Slice(ck_text, ck_start, end))
           /\ ck_starts' = Append(ck_starts, ck_start)
           /\ ck_start' = NextStart(end, ck_overlap)
    /\ UNCHANGED <<ck_text, ck_chunk_size, ck_overlap, ck_pc, ck_i,
                   ck_embedded, ck_list, notChunk>>

\* `return chunks` (line 57): the for loop of _worker starts.
ChunkReturn ==
    /\ ck_pc = "loop"
    /\ ~(ck_start < Len(ck_text))
    /\ ck_pc' = "embed"
    /\ UNCHANGED <<ck_text, ck_chunk_size, ck_overlap, ck_start, ck_starts,
                   ck_chunks, ck_i, ck_embedded, ck_list, notChunk>>

\* One turn of `for chunk in chunks` (lines 175-185): a blank chunk is
\* skipped, any other is sanitized, embedded and appended.
EmbedChunk ==
    /\ ck_pc = "embed"
    /\ ck_i < Len(ck_chunks)
    /\ ck_i' = ck_i + 1
    /\ LET chunk == ck_chunks[ck_i + 1]
       IN  IF IsBlank(chunk)
           THEN UNCHANGED <<ck_embedded, ck_list>>
           ELSE /\ ck_embedded' = Append(ck_embedded, sanitize_text(chunk))
                /\ ck_list' = Append(ck_list, sanitize_text(chunk))
    /\ UNCHANGED <<ck_text, ck_chunk_size, ck_overlap, ck_start, ck_starts,
                   ck_chunks, ck_pc, notChunk>>

\* `return chunks_list` (line 186)
EmbedReturn ==
    /\ ck_pc = "embed"
    /\ ck_i = Len(ck_chunks)
    /\ ck_pc' = "done"
    /\ UNCHANGED <<ck_text, ck_chunk_size, ck_overlap, ck_start, ck_starts,
                   ck_chunks, ck_i, ck_embedded, ck_list, notChunk>>

ChunkNext == ChunkStep \/ ChunkReturn \/ EmbedChunk \/ EmbedReturn

ChunkSpec == ChunkInit /\ [][ChunkNext]_chunkVars

\* How far the window advances per chunk.
Stride == ck_chunk_size - ck_overlap

\* Window i (from 0) of the text: [i*stride, i*stride + chunk_size), clipped
\* to the length of the text.
Window(i) ==
    SubSeq(ck_text, i * Stride + 1,
           Min(i * Stride + ck_chunk_size, Len(ck_text)))

\* How many windows start below the length of the text.
WindowCount == (Len(ck_text) + Stride - 1) \div Stride

\* What chunk_text has cut so far, and what it returns, is exactly the
\* windows text[i*(chunk_size-overlap) : i*(chunk_size-overlap)+chunk_size]
\* clipped to the length L, for i = 0, 1, ... while the window start is
\* below L, in increasing i; what it returns is the value of the function
\* of its three arguments.
ChunksAreTheWindows ==
    /\ (ck_pc = "loop" /\ Stride > 0) =>
          /\ Len(ck_chunks) <= WindowCount
          /\ \A i \in DOMAIN ck_chunks : ck_chunks[i] = Window(i - 1)
    /\ ck_pc \in {"embed", "done"} =>
          /\ Len(ck_text) = 0 => ck_chunks = <<>>
          /\ Len(ck_text) > 0 =>
                /\ Stride > 0
                /\ ck_chunks = [i \in 1..WindowCount |-> Window(i - 1)]
                /\ ck_starts = [i \in 1..WindowCount |-> (i - 1) * Stride]
                /\ ck_chunks =
                      chunk_text(ck_text, ck_chunk_size, ck_overlap)

\* For "A"*4500 with chunk_size 2000 and overlap 200, chunk_text returns
\* chunks of the lengths `lengths`, cut at 0, 1800, 3600.
LongTextGives(lengths) ==
    (/\ ck_pc \in {"embed", "done"}
     /\ ck_text = LongText
     /\ ck_chunk_size = 2000
     /\ ck_overlap = 200) =>
        /\ [i \in DOMAIN ck_chunks |-> Len(ck_chunks[i])] = lengths
        /\ ck_starts = <<0, 1800, 3600>>

\* C14 as stated: the chunks are exactly the clipped windows, and for
\* "A"*4500 with the defaults they are 3 chunks of lengths 2000, 2000, 700
\* starting at 0, 1800, 3600.
C14_AsStated ==
    ChunksAreTheWindows /\ LongTextGives(<<2000, 2000, 700>>)

\* C14: the chunks are exactly the clipped windows, in increasing i, the
\* same for the same input, and for "A"*4500 with the defaults they are 3
\* chunks of lengths 2000, 2000, 900 starting at 0, 1800, 3600 (the last
\* window is [3600, 5600) clipped to 4500).
C14_ChunksAreTheWindows ==
    ChunksAreTheWindows /\ LongTextGives(<<2000, 2000, 900>>)

\* C14's case: chunk_text has returned for "A"*4500 with the defaults, and
\* for a short text cut into overlapping windows.
C14_Witness ==
    /\ ck_pc = "done"
    /\ \/ ck_text = LongText /\ Len(ck_chunks) = 3
       \/ /\ Len(ck_text) = 3 /\ ck_chunk_size = 2 /\ ck_overlap = 1
          /\ Len(ck_chunks) = 3

\* C15: chunk_text gives at least one chunk for a non-empty text; no blank
\* chunk (empty or whitespace only) is handed to the embedding call or put
\* in chunks_list, and every chunk that is not blank is.
C15_NoBlankChunkEmbedded ==
    /\ (ck_pc \in {"embed", "done"} /\ ck_text # <<>>) => ck_chunks # <<>>
    /\ \A i \in DOMAIN ck_embedded :
          ck_embedded[i] # <<>> /\ ~IsBlank(ck_embedded[i])
    /\ \A i \in DOMAIN ck_list :
          ck_list[i] # <<>> /\ \E j \in DOMAIN ck_list[i] : ck_list[i][j] = 65
    /\ Len(ck_list) = Len(ck_embedded)
    /\ ck_pc = "done" =>
          ck_list = SelectSeq(ck_chunks,
                              LAMBDA c : \E j \in DOMAIN c : c[j] = 65)

\* C15's case: a text cut into a blank chunk and one that is not; the loop
\* has skipped the first and embedded the second.
C15_Witness ==
    /\ ck_pc = "done"
    /\ \E i \in DOMAIN ck_chunks : \A j \in DOMAIN ck_chunks[i] :
           ck_chunks[i][j] = 32
    /\ ck_list # <<>>

(***************************************************************************)
(* The pipeline of one file with its structured metadata                   *)
(* (_extract_wine_features, _build_wine_metadata, the for loop of _worker) *)
(*                                                                         *)
(* A dict is a function from its keys; every leaf value is written as a    *)
(* string ("None", "[]", "False", "0", "True").  A value of the extraction *)
(* is a dict or not: [dict |-> ..., items |-> ...].                        *)
(***************************************************************************)

EmptyDict == <<>>

\* The most non-blank chunks the file has.
MaxMetaChunks == 2

\* filename.split('.')[0]
Stem == [n \in Names |-> IF n = "a.txt" THEN "a" ELSE "b"]

\* file.get('webViewLink', '')
Urls == {"", "https://drive/view"}

\* The blocks the merge loop goes through (line 330).
MergedBlocks ==
    {"identificacion", "origen", "enologia", "perfil_sensorial", "maridaje",
     "servicio", "comercial"}

\* base_metadata (lines 304-326)
base_metadata(filename, modified_at, url) ==
    "identificacion" :>
        ("vino_id" :> Stem[filename] @@ "nombre" :> filename @@
         "bodega" :> None @@ "añada" :> None @@ "sku" :> None @@
         "url_ficha" :> url) @@
    "origen" :>
        ("pais" :> "Argentina" @@ "region" :> None @@ "sub_region" :> None @@
         "apelacion" :> None @@ "vinedo" :> None @@ "altitud_msnm" :> None) @@
    "enologia" :>
        ("varietales" :> "[]" @@ "alcohol_vol" :> None @@ "ph" :> None @@
         "acidez_total_gL" :> None @@ "azucar_residual_gL" :> None @@
         "crianza" :> None @@ "potencial_guarda_años" :> None) @@
    "perfil_sensorial" :>
        ("vista" :> None @@ "nariz" :> "[]" @@ "boca" :> None @@
         "intensidad" :> None @@ "complejidad" :> None) @@
    "maridaje" :>
        ("platos_recomendados" :> "[]" @@ "tipo_cocina" :> "[]") @@
    "servicio" :>
        ("temperatura_ideal_c" :> None @@ "decantacion_necesaria" :> "False" @@
         "tiempo_decantacion_min" :> "0" @@ "cristaleria_sugerida" :> None) @@
    "comercial" :>
        ("rango_precio" :> None @@ "disponibilidad" :> "True" @@
         "puntuaciones" :> "[]" @@ "canal_venta" :> "[]") @@
    "documental" :>
        ("fuente_nombre" :> filename @@ "fecha_ingesta" :> modified_at @@
         "version_esquema" :> "1.1 (LLM-Extracted)" @@
         "tipo_chunk" :> "fragmento_texto" @@ "idioma" :> "es")

\* An update that puts the new dict in place of the old one.
DictReplace(d, u) == u

\* d.update(u)
DictUpdate(d, u) ==
    [k \in DOMAIN d \cup DOMAIN u |-> IF k \in DOMAIN u THEN u[k] ELSE d[k]]

\* A filter that lets every extracted key through.
WithPinned(extracted_ident) == extracted_ident

\* {k: v for k, v in extracted_ident.items()
\*        if k not in ["url_ficha", "vino_id"]}
WithoutPinned(extracted_ident) ==
    [k \in DOMAIN extracted_ident \ {"url_ficha", "vino_id"} |->
        extracted_ident[k]]

\* _build_wine_metadata (lines 299-340)
build_wine_metadata(filename, modified_at, url, extracted_data) ==
    LET base == base_metadata(filename, modified_at, url)
    IN  IF extracted_data = EmptyDict THEN base
        ELSE [block \in DOMAIN base |->
                IF /\ block \in MergedBlocks
                   /\ block \in DOMAIN extracted_data
                   /\ extracted_data[block].dict
                THEN IF block = "identificacion"
                     THEN DictUpdate(base[block],
                              WithoutPinned(extracted_data[block].items))
                     ELSE DictUpdate(base[block], extracted_data[block].items)
                ELSE base[block]]

\* A value of the extraction that is a dict with these items.
ADict(items) == [dict |-> TRUE, items |-> items]

\* A value of the extraction that is no dict (a string, a list, null).
NotADict == [dict |-> FALSE, items |-> EmptyDict]

\* The key is missing from the extraction.
Absent == [dict |-> FALSE, items |-> ("absent" :> "absent")]

\* What the language model may answer for a block.
IdentReplies ==
    {Absent, NotADict,
     ADict("bodega" :> "Catena"),
     ADict("url_ficha" :> "http://elsewhere" @@ "vino_id" :> "other-id" @@
           "nombre" :> "Gran Malbec")}

OrigenReplies ==
    {Absent,
     ADict("pais" :> None),
     ADict("pais" :> "Chile" @@ "region" :> "Maipo")}

EnologiaReplies ==
    {Absent, NotADict,
     ADict("alcohol_vol" :> "13.5"),
     ADict("ph" :> "3.6" @@ "varietales" :> "[{cepa: Malbec}]" @@
           "color" :> "tinto")}

DocumentalReplies ==
    {Absent,
     ADict("fuente_nombre" :> "other.pdf" @@ "fecha_ingesta" :> "t9")}

\* The JSON object of a reply: the keys that are there, with their values.
JsonObject(ident, origen, enologia, documental) ==
    LET all == "identificacion" :> ident @@ "origen" :> origen @@
               "enologia" :> enologia @@ "documental" :> documental
    IN  [b \in {c \in DOMAIN all : all[c] # Absent} |-> all[b]]

Extractions ==
    {JsonObject(i, o, e, d) :
        i \in IdentReplies, o \in OrigenReplies, e \in EnologiaReplies,
        d \in DocumentalReplies}

\* What the completion call of _extract_wine_features does: it answers a
\* JSON object, it raises, or it answers what json.loads cannot parse.
Replies ==
    {[kind |-> "ok", data |-> x] : x \in Extractions}
        \cup {[kind |-> "error", data |-> EmptyDict],
              [kind |-> "malformed", data |-> EmptyDict]}

\* An extraction that lets the failure of the call through.
extract_raising(reply) ==
    [raised |-> reply.kind # "ok", value |-> reply.data]

\* _extract_wine_features (lines 284-297): the parsed object, or {} when the
\* call or json.loads raised; nothing is raised to the caller.
extract_wine_features(reply) ==
    [raised |-> FALSE,
     value |-> IF reply.kind = "ok" THEN reply.data ELSE EmptyDict]

\* _worker is called for a file with content; its text is extracted.
MetaInit ==
    /\ MetaAlone
    /\ md_pc = "extract"
    /\ md_name \in Names
    /\ md_modified_at \in StampOrNone
    /\ md_url \in Urls
    /\ md_reply \in Replies
    /\ extracted_metadata = EmptyDict
    /\ md_left \in 1..MaxMetaChunks
    /\ md_list = <<>>
    /\ md_raised = FALSE
    /\ md_stored = <<>>

\* extracted_metadata = self._extract_wine_features(text_content) (line
\* 169); an exception would end the pipeline in the except clause (188-192).
ExtractWineFeatures ==
    /\ md_pc = "extract"
    /\ LET r == extract_wine_features(md_reply)
       IN  IF r.raised
           THEN /\ md_raised' = TRUE
                /\ md_list' = OnException(md_list)
                /\ md_pc' = "returned"
                /\ UNCHANGED extracted_metadata
           ELSE /\ extracted_metadata' = r.value
                /\ md_pc' = "chunks"
                /\ UNCHANGED <<md_raised, md_list>>
    /\ UNCHANGED <<md_name, md_modified_at, md_url, md_reply, md_left,
                   md_stored, notMeta>>

\* One non-blank chunk of the for loop (lines 175-185): it is embedded and
\* appended with the metadata built for it.
BuildChunk ==
    /\ md_pc = "chunks"
    /\ md_left > 0
    /\ md_left' = md_left - 1
    /\ md_list' = Append(md_list,
                         build_wine_metadata(md_name, md_modified_at, md_url,
                                             extracted_metadata))
    /\ UNCHANGED <<md_pc, md_name, md_modified_at, md_url, md_reply,
                   extracted_metadata, md_raised, md_stored, notMeta>>

\* return chunks_list (line 186)
MetaReturn ==
    /\ md_pc = "chunks"
    /\ md_left = 0
    /\ md_pc' = "returned"
    /\ UNCHANGED <<md_name, md_modified_at, md_url, md_reply,
                   extracted_metadata, md_left, md_list, md_raised, md_stored,
                   notMeta>>

\* The rows the worker returned are inserted (lines 201-211).
MetaInsert ==
    /\ md_pc = "returned"
    /\ md_stored' = md_list
    /\ md_pc' = "stored"
    /\ UNCHANGED <<md_name, md_modified_at, md_url, md_reply,
                   extracted_metadata, md_left, md_list, md_raised, notMeta>>

MetaNext == ExtractWineFeatures \/ BuildChunk \/ MetaReturn \/ MetaInsert

MetaSpec == MetaInit /\ [][MetaNext]_metaVars

\* The metadata built so far for the file, and the metadata stored for it.
MetaRows == Range(md_list) \cup Range(md_stored)

\* The base structure of the file at hand.
MetaBase == base_metadata(md_name, md_modified_at, md_url)

\* C16: in every row, for every block other than identificacion and
\* documental: when the extraction has a dict for the block, each key of that
\* dict carries the extracted value, as a whole, and every base key the dict
\* lacks keeps its default; otherwise the block is the base block.  The
\* extraction {enologia: {alcohol_vol: 13.5}} gives alcohol_vol 13.5 and ph
\* null.
C16_ShallowMergePerKey ==
    \A row \in MetaRows :
        /\ \A b \in MergedBlocks \ {"identificacion"} :
              IF b \in DOMAIN extracted_metadata /\ extracted_metadata[b].dict
              THEN LET items == extracted_metadata[b].items
                   IN  /\ \A k \in DOMAIN items :
                             k \in DOMAIN row[b] /\ row[b][k] = items[k]
                       /\ \A k \in DOMAIN MetaBase[b] \ DOMAIN items :
                             k \in DOMAIN row[b] /\ row[b][k] = MetaBase[b][k]
              ELSE row[b] = MetaBase[b]
        /\ ("enologia" \in DOMAIN extracted_metadata
              /\ extracted_metadata["enologia"] =
                     ADict("alcohol_vol" :> "13.5")) =>
              /\ "ph" \in DOMAIN row["enologia"]
              /\ row["enologia"]["alcohol_vol"] = "13.5"
              /\ row["enologia"]["ph"] = None

\* C16's case: rows stored for an extraction that gives the alcohol, leaves
\* the pH out and sets the country to null.
C16_Witness ==
    /\ md_pc = "stored" /\ md_stored # <<>>
    /\ "enologia" \in DOMAIN extracted_metadata
    /\ extracted_metadata["enologia"] = ADict("alcohol_vol" :> "13.5")
    /\ "origen" \in DOMAIN extracted_metadata
    /\ md_stored[1]["origen"]["pais"] = None

\* C17: whatever the extraction proposes, every row has the system's URL
\* and id in identificacion and the file's name and remote timestamp in
\* documental, so all rows of the file agree on them.
C17_SystemFieldsPinned ==
    \A row \in MetaRows :
        /\ "url_ficha" \in DOMAIN row["identificacion"]
        /\ "vino_id" \in DOMAIN row["identificacion"]
        /\ row["identificacion"]["url_ficha"] = md_url
        /\ row["identificacion"]["vino_id"] = Stem[md_name]
        /\ row["documental"] = MetaBase["documental"]
        /\ row["documental"]["fuente_nombre"] = md_name
        /\ row["documental"]["fecha_ingesta"] = md_modified_at

\* C17's case: two rows stored for an extraction that proposes a url_ficha,
\* a vino_id and a documental block of its own.
C17_Witness ==
    /\ md_pc = "stored" /\ Len(md_stored) = 2
    /\ "identificacion" \in DOMAIN extracted_metadata
    /\ extracted_metadata["identificacion"].dict
    /\ "url_ficha" \in DOMAIN extracted_metadata["identificacion"].items
    /\ "documental" \in DOMAIN extracted_metadata

\* C18: when the extraction call raises or answers what cannot be parsed,
\* the extraction is empty, the pipeline does not raise, every chunk of the
\* file gets its row, the rows are inserted, and every block of every row
\* is the base block.
C18_ExtractionFailureKeepsFile ==
    md_reply.kind # "ok" =>
        /\ ~md_raised
        /\ md_pc # "extract" => extracted_metadata = EmptyDict
        /\ md_pc \in {"returned", "stored"} => md_left = 0 /\ md_list # <<>>
        /\ md_pc = "stored" => md_stored = md_list
        /\ \A row \in MetaRows : row = MetaBase

\* C18's case: the answer of the extraction call could not be parsed, and
\* the two chunks of the file are in the index.
C18_Witness ==
    /\ md_pc = "stored"
    /\ md_reply.kind = "malformed"
    /\ Len(md_stored) = 2

----------------------------------------------------------------------------
\* ask_bot (analyzer.py:342-445), one call taken by itself.

\* How many rows the index holds at most, and how many tool calls one
\* completion elects at most.
MaxStored == 6
MaxToolCalls == 2

\* limit=5 of the search made by ask_bot.
search_limit == 5

\* The function names a tool call can carry: the declared tool, and any other.
ToolNames == {"get_weather", "other"}

\* tool_call.function.arguments: text that json.loads turns into an object,
\* or text it raises on.
Arguments == {"object", "malformed"}

ToolCall == [name : ToolNames, arguments : Arguments]

ToolCallLists ==
    UNION {[1..k -> ToolCall] : k \in 0..MaxToolCalls}

\* What chat.completions.create does: raises, or returns a message.
Completions ==
    {[raises |-> TRUE, tool_calls |-> <<>>]}
        \cup {[raises |-> FALSE, tool_calls |-> c] : c \in ToolCallLists}

RECURSIVE Total(_, _)
Total(f, S) ==
    IF S = {} THEN 0
    ELSE LET n == CHOOSE x \in S : TRUE IN f[n] + Total(f, S \ {n})

\* The indexes a question can find: every row carries documental.fuente_nombre
\* (build_wine_metadata), so an index is a number of rows per name.
Indexes == {st \in [Names -> 0..MaxStored] : Total(st, Names) <= MaxStored}

\* VectorStore.search: the limit nearest rows, whichever they are.
search(st, limit) ==
    {r \in [Names -> 0..limit] :
        /\ \A n \in Names : r[n] <= st[n]
        /\ Total(r, Names) = Min(limit, Total(st, Names))}

\* The names the for loop over the results adds to source_files.
FuenteNombres(res) == {n \in Names : res[n] > 0}

\* list(source_files) always empty.
ListsEmpty(S) == {<<>>}

\* list(source_files): the members of the set, each once, in any order.
Lists(S) ==
    {l \in [1..Cardinality(S) -> S] : Range(l) = S}

\* A retrieval whose exception leaves ask_bot.
RetrievalRaises(at) == "raised"

\* The except of the retrieval (analyzer.py:359-360): ask_bot goes on to
\* the prompt and the first completion.
RetrievalExcept(at) == "complete1"

\* An except branch that returns the sources collected so far.
ErrorSourcesKept(files) == CHOOSE l \in Lists(files) : TRUE

\* "sources": [] of the except branch of the completion phase.
ErrorSources(files) == <<>>

\* Analyzer.get_weather: the weather text, or, when the request fails, a
\* text saying so; it raises nothing.
get_weather(ok) == IF ok THEN "weather" ELSE "weather_error"

\* What a call adds to the trace: itself, and its exception if it raises.
Called(event, ok) == IF ok THEN <<event>> ELSE <<event, "raise">>

\* Whether the for loop over tool_calls calls get_weather for this one.
IsWeather(call) == call.name = "get_weather"

AskInit ==
    /\ AskAlone
    /\ ask_pc = "embed"
    /\ vector_store \in BOOLEAN
    /\ stored \in Indexes
    /\ results = [n \in Names |-> 0]
    /\ retrieved_context = FALSE
    /\ source_files = {}
    /\ tool_calls = <<>>
    /\ tool_i = 0
    /\ used_weather = FALSE
    /\ tool_messages = <<>>
    /\ answer = "none"
    /\ sources = <<>>
    /\ ask_trace = <<>>

\* The except branch of the completion phase: the error answer, no sources.
AskError ==
    /\ ask_pc' = "returned"
    /\ answer' = "error"
    /\ sources' = ErrorSources(source_files)

\* The return of lines 437-440 with the given answer and source set.
AskReturn(a, files) ==
    /\ ask_pc' = "returned"
    /\ answer' = a
    /\ sources' \in Lists(files)

\* Without a vector store the retrieval is skipped.
NoVectorStore ==
    /\ ask_pc = "embed"
    /\ ~vector_store
    /\ ask_pc' = "complete1"
    /\ UNCHANGED <<vector_store, stored, results, retrieved_context,
                   source_files, tool_calls, tool_i, used_weather,
                   tool_messages, answer, sources, ask_trace>>
    /\ UNCHANGED notAsk

\* get_embedding(query); when it raises, the except of the retrieval leaves
\* the context and the source set empty.
GetEmbedding(ok) ==
    /\ ask_pc = "embed"
    /\ vector_store
    /\ ask_trace' = ask_trace \o Called("embedding", ok)
    /\ ask_pc' = IF ok THEN "search" ELSE RetrievalExcept(ask_pc)
    /\ UNCHANGED <<vector_store, stored, results, retrieved_context,
                   source_files, tool_calls, tool_i, used_weather,
                   tool_messages, answer, sources>>
    /\ UNCHANGED notAsk

\* vector_store.search(query_embedding, limit=5) and the loop over its
\* results; when the search raises, nothing was collected.
Search(ok) ==
    /\ ask_pc = "search"
    /\ ask_trace' = ask_trace \o Called("search", ok)
    /\ IF ok
       THEN /\ results' \in search(stored, search_limit)
            /\ source_files' = FuenteNombres(results')
            /\ retrieved_context' = (Total(results', Names) > 0)
       ELSE UNCHANGED <<results, source_files, retrieved_context>>
    /\ ask_pc' = IF ok THEN "complete1" ELSE RetrievalExcept(ask_pc)
    /\ UNCHANGED <<vector_store, stored, tool_calls, tool_i, used_weather,
                   tool_messages, answer, sources>>
    /\ UNCHANGED notAsk

\* The first completion: it raises, answers directly, or elects tool calls.
FirstCompletion(c) ==
    /\ ask_pc = "complete1"
    /\ ask_trace' = ask_trace \o Called("completion", ~c.raises)
    /\ IF c.raises
       THEN AskError /\ UNCHANGED <<tool_calls, used_weather>>
       ELSE IF c.tool_calls = <<>>
       THEN AskReturn("first", source_files)
                /\ UNCHANGED <<tool_calls, used_weather>>
       ELSE /\ tool_calls' = c.tool_calls
            /\ used_weather' = FALSE
            /\ ask_pc' = "tools"
            /\ UNCHANGED <<answer, sources>>
    /\ UNCHANGED <<vector_store, stored, results, retrieved_context,
                   source_files, tool_i, tool_messages>>
    /\ UNCHANGED notAsk

\* One turn of the for loop over tool_calls: json.loads of the arguments,
\* which raises on malformed text, then get_weather when the name is its
\* (weather_ok: the weather request succeeds).
ToolLoop(weather_ok) ==
    /\ ask_pc = "tools"
    /\ tool_i < Len(tool_calls)
    /\ LET call == tool_calls[tool_i + 1] IN
        IF call.arguments = "malformed"
        THEN /\ AskError
             /\ ask_trace' = ask_trace \o Called("parse", FALSE)
             /\ UNCHANGED <<tool_i, used_weather, tool_messages>>
        ELSE /\ tool_i' = tool_i + 1
             /\ IF IsWeather(call)
                THEN /\ used_weather' = TRUE
                     /\ ask_trace' = ask_trace \o <<"parse", "tool">>
                     /\ tool_messages' =
                            Append(tool_messages, get_weather(weather_ok))
                ELSE /\ ask_trace' = ask_trace \o Called("parse", TRUE)
                     /\ UNCHANGED <<used_weather, tool_messages>>
             /\ UNCHANGED <<ask_pc, answer, sources>>
    /\ UNCHANGED <<vector_store, stored, results, retrieved_context,
                   source_files, tool_calls>>
    /\ UNCHANGED notAsk

\* The second completion, made without tools, after the loop; its tool
\* calls, if any, are not looked at.
SecondCompletion(c) ==
    /\ ask_pc = "tools"
    /\ tool_i = Len(tool_calls)
    /\ ask_trace' = ask_trace \o Called("completion", ~c.raises)
    /\ IF c.raises
       THEN AskError /\ UNCHANGED source_files
       ELSE /\ source_files' = IF used_weather THEN {} ELSE source_files
            /\ AskReturn("second", source_files')
    /\ UNCHANGED <<vector_store, stored, results, retrieved_context,
                   tool_calls, tool_i, used_weather, tool_messages>>
    /\ UNCHANGED notAsk

AskNext ==
    \/ NoVectorStore
    \/ \E ok \in BOOLEAN : GetEmbedding(ok)
    \/ \E ok \in BOOLEAN : Search(ok)
    \/ \E c \in Completions : FirstCompletion(c)
    \/ \E weather_ok \in BOOLEAN : ToolLoop(weather_ok)
    \/ \E c \in Completions : SecondCompletion(c)

AskSpec == AskInit /\ [][AskNext]_askVars

\* How many times the call was made.
Count(event) ==
    Cardinality({i \in DOMAIN ask_trace : ask_trace[i] = event})

\* C19: whenever the first completion elected a tool call, by the time
\* ask_bot returns a tool was executed, a second completion was requested,
\* and the returned sources are empty, whatever was retrieved.
C19_ToolCallSuppressesSources ==
    (ask_pc = "returned" /\ tool_calls # <<>>) =>
        /\ Count("tool") >= 1
        /\ Count("completion") = 2
        /\ sources = <<>>

\* C20: when the first completion elected no tool call, ask_bot returns
\* that completion's content, and the returned sources list the names of
\* the retrieved rows, at most five of them, each name once.
C20_DirectAnswerListsSources ==
    (ask_pc = "returned" /\ answer # "error" /\ tool_calls = <<>>) =>
        /\ answer = "first"
        /\ Count("completion") = 1
        /\ Total(results, Names) <= 5
        /\ Range(sources) = {n \in Names : results[n] > 0}
        /\ Len(sources) = Cardinality(Range(sources))

\* C20's case: five of six stored rows, of two files, were retrieved and the
\* first completion answered directly.
C20_Witness ==
    /\ ask_pc = "returned" /\ answer = "first"
    /\ Total(stored, Names) = 6
    /\ Total(results, Names) = 5
    /\ Len(sources) = 2

\* Whether a call of this kind raised.
RaisedIn(event) ==
    \E i \in DOMAIN ask_trace :
        i > 1 /\ ask_trace[i] = "raise" /\ ask_trace[i - 1] = event

\* C21: when the embedding of the question or the search raises, ask_bot
\* does not raise: the retrieved context and the source set are empty, and
\* ask_bot goes on to the completion, which it has requested by the time it
\* returns.
C21_RetrievalErrorIsCaught ==
    /\ ask_pc # "raised"
    /\ (RaisedIn("embedding") \/ RaisedIn("search")) =>
        /\ ask_pc \in {"complete1", "tools", "returned"}
        /\ ~retrieved_context
        /\ source_files = {}
        /\ ask_pc = "returned" => Count("completion") >= 1

\* C21's case: the search raised on an index that holds rows, and the first
\* completion answered.
C21_Witness ==
    /\ ask_pc = "returned" /\ answer = "first"
    /\ RaisedIn("search")
    /\ Total(stored, Names) > 0

\* An exception was raised in the completion phase.
CompletionPhaseRaised == RaisedIn("completion") \/ RaisedIn("parse")

\* The weather request of a tool call failed.
WeatherFailed == get_weather(FALSE) \in Range(tool_messages)

\* C22 as stated: after any error of the completion phase, a failed tool
\* execution included, ask_bot returns the error answer with no sources.
C22_AsStated ==
    /\ ask_pc # "raised"
    /\ (ask_pc = "returned" /\ (CompletionPhaseRaised \/ WeatherFailed)) =>
        answer = "error" /\ sources = <<>>

\* C22: ask_bot never raises; when a completion or the parsing of a tool
\* call's arguments raised, it returns the error answer with no sources;
\* when only the weather request failed, the failure is the tool's result,
\* and ask_bot returns the second completion's answer with no sources.
C22_CompletionErrorIsAnswered ==
    /\ ask_pc # "raised"
    /\ (ask_pc = "returned" /\ CompletionPhaseRaised) =>
        answer = "error" /\ sources = <<>>
    /\ (ask_pc = "returned" /\ WeatherFailed /\ ~CompletionPhaseRaised) =>
        answer = "second" /\ sources = <<>>

\* C22's case: with a source retrieved, the weather tool ran, and the
\* second completion raised.
C22_Witness ==
    /\ ask_pc = "returned"
    /\ source_files # {}
    /\ Count("tool") = 1
    /\ Count("completion") = 2
    /\ RaisedIn("completion")

\* The positions of the trace where the call was made.
Positions(event) == {i \in DOMAIN ask_trace : ask_trace[i] = event}

\* The two states of an answered question.
Direct == Count("completion") = 1

ToolAugmented ==
    /\ Count("completion") = 2
    /\ Count("tool") >= 1
    /\ \A t \in Positions("tool") :
        \E a, b \in Positions("completion") : a < t /\ t < b

\* C30: a returned call made at most one embedding request, one search and
\* two completion requests, and is Direct or ToolAugmented.
C30_DirectOrToolAugmented ==
    ask_pc = "returned" =>
        /\ Count("embedding") <= 1
        /\ Count("search") <= 1
        /\ Count("completion") <= 2
        /\ Direct \/ ToolAugmented

----------------------------------------------------------------------------
\* VectorStore's operations on the table (vector_store.py:74-112), taken by
\* themselves.

\* How many rows the table holds at most.
MaxTable == 3

\* The embeddings rows carry, the embeddings of the questions, and the
\* cosine distance between them, in tenths.
Embeddings == {"e1", "e2", "e3"}
Queries == {"q1", "q2"}

cosine_distance(embedding, query_embedding) ==
    IF query_embedding = "q1"
    THEN (IF embedding = "e1" THEN 1 ELSE IF embedding = "e2" THEN 5 ELSE 9)
    ELSE (IF embedding = "e1" THEN 9 ELSE 5)

\* A row: the source name of its metadata, and its embedding.
Rows == [fuente_nombre : Names, embedding : Embeddings]

\* The lists of rows add_documents is called with.
RowLists == UNION {[1..k -> Rows] : k \in 1..2}

Limits == 0..(MaxTable + 1)

\* The rows of the table laid out in some order.
Layouts(idx) ==
    {s \in [1..BagCardinality(idx) -> BagToSet(idx)] : SeqToBag(s) = idx}

\* A query without ORDER BY: the rows come in any order.
unordered(idx, query_embedding) == Layouts(idx)

\* order_by(WineChunk.embedding.cosine_distance(query_embedding)): the rows
\* by ascending distance, rows at the same distance in any order.
order_by(idx, query_embedding) ==
    {s \in Layouts(idx) :
        \A i, j \in DOMAIN s :
            i < j => cosine_distance(s[i].embedding, query_embedding)
                        <= cosine_distance(s[j].embedding, query_embedding)}

\* .limit(limit)
limit_rows(s, limit) == SubSeq(s, 1, Min(limit, Len(s)))

\* VectorStore.search: what it can return.
search_table(idx, query_embedding, limit) ==
    {limit_rows(s, limit) : s \in order_by(idx, query_embedding)}

\* The number of rows the DELETE of delete_by_filename matches.
deleted(idx, filename) == BagCardinality(Restrict(idx, {filename}))

StoreInit ==
    /\ StoreAlone
    /\ table = EmptyBag
    /\ table0 = EmptyBag
    /\ vs_op = "none"
    /\ vs_filename = None
    /\ vs_query = None
    /\ vs_limit = 0
    /\ vs_returned = None

\* add_documents(chunks_data)
StoreAdd(chunks_data) ==
    /\ BagCardinality(table) + Len(chunks_data) <= MaxTable
    /\ table0' = table
    /\ table' = add_documents(table, chunks_data)
    /\ vs_op' = "add"
    /\ vs_returned' = None
    /\ UNCHANGED <<vs_filename, vs_query, vs_limit>>
    /\ UNCHANGED notStore

\* delete_by_filename(filename)
StoreDelete(filename) ==
    /\ table0' = table
    /\ table' = delete_by_filename(table, {filename})
    /\ vs_op' = "delete"
    /\ vs_filename' = filename
    /\ vs_returned' = deleted(table, filename)
    /\ UNCHANGED <<vs_query, vs_limit>>
    /\ UNCHANGED notStore

\* search(query_embedding, limit)
StoreSearch(query_embedding, limit) ==
    /\ table0' = table
    /\ vs_op' = "search"
    /\ vs_query' = query_embedding
    /\ vs_limit' = limit
    /\ vs_returned' \in search_table(table, query_embedding, limit)
    /\ UNCHANGED <<table, vs_filename>>
    /\ UNCHANGED notStore

StoreNext ==
    \/ \E chunks_data \in RowLists : StoreAdd(chunks_data)
    \/ \E filename \in Names : StoreDelete(filename)
    \/ \E q \in Queries, limit \in Limits : StoreSearch(q, limit)

StoreSpec == StoreInit /\ [][StoreNext]_storeVars

\* The distance of a row to the query of the last search.
Dist(r) == cosine_distance(r.embedding, vs_query)

\* The table of the example: three rows at distances 0.1, 0.5 and 0.9 of q1.
ExampleTable ==
    SeqToBag(<<[fuente_nombre |-> "a.txt", embedding |-> "e1"],
               [fuente_nombre |-> "a.txt", embedding |-> "e2"],
               [fuente_nombre |-> "b.txt", embedding |-> "e3"]>>)

\* C23: search returns min(limit, number of rows) rows of the table, in
\* ascending order of cosine distance, no row left out being closer than
\* one returned, and leaves the table as it was; for rows at 0.1, 0.5 and
\* 0.9 and limit 2 it returns the row at 0.1, then the row at 0.5.
C23_SearchNearestAscending ==
    vs_op = "search" =>
        /\ table = table0
        /\ Len(vs_returned) = Min(vs_limit, BagCardinality(table0))
        /\ SeqToBag(vs_returned) \sqsubseteq table0
        /\ \A i, j \in DOMAIN vs_returned :
            i < j => Dist(vs_returned[i]) <= Dist(vs_returned[j])
        /\ \A r \in BagToSet(table0 (-) SeqToBag(vs_returned)) :
            \A i \in DOMAIN vs_returned : Dist(vs_returned[i]) <= Dist(r)
        /\ (table0 = ExampleTable /\ vs_query = "q1" /\ vs_limit = 2) =>
            <<Dist(vs_returned[1]), Dist(vs_returned[2])>> = <<1, 5>>

\* C23's case: the search of the example, on rows stored farthest first.
C23_Witness ==
    /\ vs_op = "search"
    /\ table0 = ExampleTable /\ vs_query = "q1" /\ vs_limit = 2
    /\ Len(vs_returned) = 2

\* How many copies of a row a table holds.
Copies(idx, r) == IF r \in BagToSet(idx) THEN idx[r] ELSE 0

\* C24: delete_by_filename removes every row of the name and no other row,
\* returns how many it removed, and for a name without rows returns 0 and
\* leaves the table as it was.
C24_DeleteByFilenameFrame ==
    vs_op = "delete" =>
        /\ \A r \in Rows :
            Copies(table, r) =
                IF r.fuente_nombre = vs_filename THEN 0 ELSE Copies(table0, r)
        /\ vs_returned = BagCardinality(table0) - BagCardinality(table)
        /\ (\A r \in BagToSet(table0) : r.fuente_nombre # vs_filename) =>
            vs_returned = 0 /\ table = table0

\* C24's case: two rows of one name deleted next to a row of the other name.
C24_Witness ==
    /\ vs_op = "delete"
    /\ vs_returned = 2
    /\ BagCardinality(table) = 1

\* C24's other case: a deletion for a name without rows, on a table with rows.
C24_WitnessAbsent ==
    /\ vs_op = "delete"
    /\ vs_returned = 0
    /\ BagCardinality(table) > 0

----------------------------------------------------------------------------
\* The start of the service and the calls it serves afterwards
\* (app.py:14-34, 36-53, 92-115, 187-192; analyzer.py:14-35).

\* How many refreshes and questions the service is followed for.
MaxCalls == 4

\* `if not analyzer`: whether init_bot constructs the Analyzer, and with it
\* the VectorStore.
ConstructsAnalyzer(current) == current = None

\* Analyzer.__init__, lines 21-35: vector_store is set when VectorStore()
\* and init_db() succeed, None when the index cannot be reached.
AnalyzerInit(reachable) == reachable

\* init_bot: the drive connector is constructed when there is none
\* (drive_ok: its construction succeeds), the Analyzer when there is none.
init_bot(drive_ok) ==
    /\ drive' = IF drive = None /\ drive_ok THEN "DriveConnector" ELSE drive
    /\ IF ConstructsAnalyzer(analyzer)
       THEN /\ analyzer' = "Analyzer"
            /\ an_vector_store' = AnalyzerInit(db_up)
            /\ bt_attempted' = TRUE
            /\ bt_connects' = bt_connects + 1
       ELSE /\ UNCHANGED <<analyzer, an_vector_store, bt_connects>>
            /\ bt_attempted' = FALSE

\* What a call records of the state it found.
CallFound(op) ==
    /\ bt_op' = op
    /\ bt_db_up' = db_up
    /\ bt_store_before' = an_vector_store

BootInit ==
    /\ BootAlone
    /\ bt_pc = "start"
    /\ db_up \in BOOLEAN
    /\ drive = None
    /\ analyzer = None
    /\ an_vector_store = FALSE
    /\ bt_op = "none"
    /\ bt_result = "none"
    /\ bt_db_up = FALSE
    /\ bt_store_before = FALSE
    /\ bt_attempted = FALSE
    /\ bt_listed = FALSE
    /\ bt_calls = 0
    /\ bt_connects = 0

\* The module is loaded: init_bot() inside try (app.py:187-192).
Boot(drive_ok) ==
    /\ bt_pc = "start"
    /\ init_bot(drive_ok)
    /\ CallFound("boot")
    /\ bt_result' = "none"
    /\ bt_pc' = "serving"
    /\ UNCHANGED <<db_up, bt_listed, bt_calls>>
    /\ UNCHANGED notBoot

\* The index becomes reachable, or stops being so.
IndexReachability ==
    /\ bt_pc = "serving"
    /\ db_up' = ~db_up
    /\ UNCHANGED <<bt_pc, drive, analyzer, an_vector_store, bt_op, bt_result,
                   bt_db_up, bt_store_before, bt_attempted, bt_listed,
                   bt_calls, bt_connects>>
    /\ UNCHANGED notBoot

\* POST /api/refresh: load_drive_context calls init_bot only `if not drive`;
\* without a drive the listing raises, an empty listing returns at once,
\* and get_indexed_files_info raises on a vector_store that is None or
\* cannot be reached; every exception is the "Error loading context" text.
Refresh(drive_ok, listed) ==
    /\ bt_pc = "serving"
    /\ bt_calls < MaxCalls
    /\ bt_calls' = bt_calls + 1
    /\ IF drive = None
       THEN init_bot(drive_ok)
       ELSE /\ UNCHANGED <<drive, analyzer, an_vector_store, bt_connects>>
            /\ bt_attempted' = FALSE
    /\ CallFound("refresh")
    /\ bt_listed' = (drive' # None /\ listed)
    /\ bt_result' =
        IF drive' = None THEN "error"
        ELSE IF ~listed THEN "no_files"
        ELSE IF an_vector_store' /\ db_up THEN "synced"
        ELSE "error"
    /\ UNCHANGED <<bt_pc, db_up>>
    /\ UNCHANGED notBoot

\* POST /api/ask: init_bot(), then ask_bot, which skips the retrieval when
\* vector_store is None and answers all the same.
Ask(drive_ok) ==
    /\ bt_pc = "serving"
    /\ bt_calls < MaxCalls
    /\ bt_calls' = bt_calls + 1
    /\ init_bot(drive_ok)
    /\ CallFound("ask")
    /\ bt_result' = "answer"
    /\ UNCHANGED <<bt_pc, db_up, bt_listed>>
    /\ UNCHANGED notBoot

BootNext ==
    \/ \E drive_ok \in BOOLEAN : Boot(drive_ok)
    \/ IndexReachability
    \/ \E drive_ok, listed \in BOOLEAN : Refresh(drive_ok, listed)
    \/ \E drive_ok \in BOOLEAN : Ask(drive_ok)

BootSpec == BootInit /\ [][BootNext]_bootVars

\* C25: after the index could not be reached when the service started, a
\* refresh that lists files returns an error as long as no connection was
\* made, every refresh or question served without a connection tries to
\* connect, and a refresh that lists files while the index can be reached
\* succeeds.
C25_ReconnectsOnNextCall ==
    /\ (bt_op = "refresh" /\ bt_listed /\ ~bt_db_up) => bt_result = "error"
    /\ (bt_op \in {"refresh", "ask"} /\ ~bt_store_before) => bt_attempted
    /\ (bt_op = "refresh" /\ bt_listed /\ bt_db_up) => bt_result = "synced"

----------------------------------------------------------------------------
\* Two refresh requests on the same index (app.py:36-102,
\* analyzer.py:76-215): refresh_context takes no lock, so the threads of
\* the web server that serve them interleave at every call to the index.

Requests == {1, 2}

\* The listings of the folder: some files, each with a timestamp.
StampedListings ==
    UNION {[S -> Stamps] : S \in (SUBSET Names) \ {{}}}

\* The indexes a finished cycle leaves: for each name no row, or the row of
\* its version t1.
CleanIndexes ==
    {[r \in {Record(n, "t1", "doc", 1) : n \in S} |-> 1] : S \in SUBSET Names}

\* A server that serves one request at a time.
OneAtATime(pcs, t) == \A u \in Requests \ {t} : pcs[u] \in {"idle", "done"}

\* Whether the server starts serving request t now: its threads take a
\* request whenever one arrives.
Accepts(pcs, t) == TRUE

RaceInit ==
    /\ RaceAlone
    /\ rc_index \in CleanIndexes
    /\ rc_listing \in StampedListings
    /\ rc_pc = [t \in Requests |-> "idle"]
    /\ rc_files_data = [t \in Requests |-> NoFiles]
    /\ rc_to_process = [t \in Requests |-> {}]
    /\ rc_all_chunks = [t \in Requests |-> <<>>]
    /\ rc_piped = [t \in Requests |-> {}]

\* refresh_context without force: a thread starts load_drive_context.
RaceRefresh(t) ==
    /\ rc_pc[t] = "idle"
    /\ Accepts(rc_pc, t)
    /\ rc_pc' = [rc_pc EXCEPT ![t] = "load"]
    /\ UNCHANGED <<rc_index, rc_listing, rc_files_data, rc_to_process,
                   rc_all_chunks, rc_piped>>
    /\ UNCHANGED notRace

\* load_drive_context: the listing, get_indexed_files_info, and the
\* download of what is new or modified (here every download succeeds).
RaceLoad(t) ==
    /\ rc_pc[t] = "load"
    /\ \E indexed_info \in get_indexed_files_info(rc_index) :
         rc_files_data' =
            [rc_files_data EXCEPT ![t] =
                [n \in DOMAIN rc_listing |->
                    [modifiedTime |-> rc_listing[n],
                     content |->
                        IF NeedsSync(Get(indexed_info, n), rc_listing[n])
                        THEN "doc" ELSE None]]]
    /\ rc_pc' = [rc_pc EXCEPT ![t] = "process"]
    /\ UNCHANGED <<rc_index, rc_listing, rc_to_process, rc_all_chunks,
                   rc_piped>>
    /\ UNCHANGED notRace

\* process_and_index_files, lines 84-112: the diff and the deletions.
RaceProcess(t) ==
    /\ rc_pc[t] = "process"
    /\ \E indexed_files_info \in get_indexed_files_info(rc_index) :
         LET fd == rc_files_data[t]
             to_delete == DOMAIN indexed_files_info \ DOMAIN fd
             to_process ==
                 {n \in DOMAIN fd :
                     NeedsSync(Get(indexed_files_info, n), fd[n].modifiedTime)}
             modified == {n \in to_process :
                             DeletesOld(Get(indexed_files_info, n))}
         IN  /\ rc_index' = delete_by_filename(rc_index, to_delete \cup modified)
             /\ rc_to_process' = [rc_to_process EXCEPT ![t] = to_process]
             /\ rc_pc' = [rc_pc EXCEPT ![t] =
                            IF NoChanges(to_process, to_delete)
                            THEN "done" ELSE "pool"]
    /\ UNCHANGED <<rc_listing, rc_files_data, rc_all_chunks, rc_piped>>
    /\ UNCHANGED notRace

RECURSIVE RowsOfFiles(_, _)
\* all_chunks once every worker has returned: the row of each file that
\* came with content, none for a file without.
RowsOfFiles(fd, names) ==
    IF names = {} THEN <<>>
    ELSE LET n == CHOOSE x \in names : TRUE
         IN  (IF fd[n].content = None THEN <<>>
              ELSE <<Record(n, fd[n].modifiedTime, fd[n].content, 1)>>)
                 \o RowsOfFiles(fd, names \ {n})

\* The parallel region, lines 194-204: it reads and writes no row.
RacePool(t) ==
    /\ rc_pc[t] = "pool"
    /\ rc_all_chunks' =
        [rc_all_chunks EXCEPT ![t] = RowsOfFiles(rc_files_data[t],
                                                 rc_to_process[t])]
    /\ rc_piped' =
        [rc_piped EXCEPT ![t] =
            {n \in rc_to_process[t] : rc_files_data[t][n].content # None}]
    /\ rc_pc' = [rc_pc EXCEPT ![t] = "insert"]
    /\ UNCHANGED <<rc_index, rc_listing, rc_files_data, rc_to_process>>
    /\ UNCHANGED notRace

\* The bulk insert, lines 206-215.
RaceInsert(t) ==
    /\ rc_pc[t] = "insert"
    /\ rc_index' = IF rc_all_chunks[t] # <<>>
                   THEN add_documents(rc_index, rc_all_chunks[t])
                   ELSE rc_index
    /\ rc_pc' = [rc_pc EXCEPT ![t] = "done"]
    /\ UNCHANGED <<rc_listing, rc_files_data, rc_to_process, rc_all_chunks,
                   rc_piped>>
    /\ UNCHANGED notRace

RaceNext ==
    \E t \in Requests :
        \/ RaceRefresh(t)
        \/ RaceLoad(t)
        \/ RaceProcess(t)
        \/ RacePool(t)
        \/ RaceInsert(t)

RaceSpec == RaceInit /\ [][RaceNext]_raceVars

\* C26: when two refresh requests overlap, no file is run through the
\* pipeline by both, and the index never holds two sets of rows for one
\* name.
C26_OverlappingRefreshesSerialized ==
    /\ rc_piped[1] \cap rc_piped[2] = {}
    /\ \A n \in Names : BagCardinality(Restrict(rc_index, {n})) <= 1

----------------------------------------------------------------------------
\* More properties of the sync cycle.

\* C27: when the download of a new or modified file fails, the cycle goes
\* on with every other listed file and returns; no row of the failed file
\* is inserted; the rows of the files whose pipeline did not raise are in
\* the index; and the index the cycle leaves makes the failed file selected
\* again, whichever timestamp the index reports for it.
C27_FailedDownloadIsRetried ==
    (SyncReturned /\ download_failed # {}) =>
        /\ DOMAIN files_data = DOMAIN listing \ download_failed
        /\ \A m \in files_to_process :
            ~raised[m] =>
                \A r \in Range(ExpectedRows(m)) : BagIn(r, index)
        /\ \A n \in download_failed :
            /\ \A i \in DOMAIN all_chunks : all_chunks[i].fuente_nombre # n
            /\ \A r \in RecordsOf(index, n) : BagIn(r, StartIndex)
            /\ \A info \in get_indexed_files_info(index) :
                NeedsSync(Get(info, n), listing[n])

\* C27's case: the download of a modified file failed while another file
\* was downloaded, and that other file's rows were inserted.
C27_Witness ==
    /\ SyncReturned /\ result = "synced"
    /\ \E n \in download_failed, m \in files_to_process :
        /\ RecordsOf(index0, n) # {}
        /\ ~raised[m] /\ ExpectedRows(m) # <<>>

----------------------------------------------------------------------------
\* More properties of chunk_text.

\* C28: whatever the text, chunk_size >= 1 and overlap >= 0, the window
\* start strictly increases from one turn of the loop to the next.
C28_StartStrictlyIncreases ==
    /\ \A i \in DOMAIN ck_starts :
        i < Len(ck_starts) => ck_starts[i] < ck_starts[i + 1]
    /\ ck_starts # <<>> => ck_starts[Len(ck_starts)] < ck_start

----------------------------------------------------------------------------
\* The order of the steps and of the rows within one file.

\* The rows of a list are in ascending window order.
Ascending(rows) ==
    \A i, j \in DOMAIN rows : i < j => rows[i].chunk < rows[j].chunk

\* C29: the pipeline of a file extracts the text, then makes its one
\* metadata-extraction call, then embeds chunk after chunk; and in the list
\* handed to the bulk insert the rows of a file lie next to each other, in
\* ascending window order, however the workers interleaved.
C29_StepsAndRowsInOrder ==
    /\ \A n \in Names :
        /\ wpc[n] = "queued" => n \notin llm_calls \cup embed_calls
        /\ wpc[n] = "meta" =>
            /\ text_content[n] # None
            /\ n \notin llm_calls \cup embed_calls
        /\ wpc[n] = "embed" => text_content[n] # None /\ n \in llm_calls
        /\ n \in embed_calls => n \in llm_calls
        /\ Ascending(chunks_list[n])
        /\ Ascending(future[n])
        /\ \A i \in DOMAIN chunks_list[n] : chunks_list[n][i].chunk < ci[n]
    /\ \A i, k \in DOMAIN all_chunks :
        (i < k /\ all_chunks[i].fuente_nombre = all_chunks[k].fuente_nombre) =>
            /\ all_chunks[i].chunk < all_chunks[k].chunk
            /\ \A j \in i..k :
                all_chunks[j].fuente_nombre = all_chunks[i].fuente_nombre

\* C29's case: two files of two rows each went through the pool, and the
\* four rows were inserted.
C29_Witness ==
    /\ pc = "done" /\ result = "synced"
    /\ Len(all_chunks) = 4
    /\ \E i, j \in DOMAIN all_chunks :
        all_chunks[i].fuente_nombre # all_chunks[j].fuente_nombre
====
